---- MODULE Spec2Model ----
(***************************************************************************)
(* Model of get_kokkai_session_list.py: parse_arguments, the paging loop   *)
(* of fetch_meeting_records, the per-record reduction of                    *)
(* aggregate_sessions, write_tsv and their sequencing in main.             *)
(***************************************************************************)
EXTENDS Integers, Sequences, FiniteSets, TLC

VARIABLES
  pc,                    \* position in main: parse, fetch, aggregate, write, done, failed
  argv,                  \* the two optional command-line flags
  objToday,              \* datetime.date.today()
  pszStartDate,          \* main: objStartDate.isoformat()
  pszEndDate,            \* main: objEndDate.isoformat()
  iRecordPosition,       \* fetch_meeting_records local
  objListMeetingRecord,  \* fetch_meeting_records local accumulator
  requestLog,            \* the query parameters of every requests.get issued
  responseLog,           \* the outcome of every requests.get issued
  objFetchResult,        \* main: the value returned by fetch_meeting_records
  iIndex,                \* aggregate_sessions: position of the for loop
  objSessionDateMap,     \* aggregate_sessions local dict, in insertion order
  objListSession,        \* main: the value returned by aggregate_sessions
  objFile,               \* kokkai_session_list.tsv
  objError,              \* the exception that ended the process, if any
  iServerCount           \* number of matching records the server holds

vars == <<pc, argv, objToday, pszStartDate, pszEndDate, iRecordPosition,
          objListMeetingRecord, requestLog, responseLog, objFetchResult,
          iIndex, objSessionDateMap, objListSession, objFile, objError,
          iServerCount>>

----------------------------------------------------------------------------
(* Bounds of the model *)

\* total number of records the nondeterministic server hands out in one run
MaxFetched == 3
\* length of the record lists given to aggregate_sessions directly
MaxRecords == 3
\* largest number of records held by the faithful server
MaxServerCount == 250

----------------------------------------------------------------------------
(* Strings are sequences of one-character strings *)

Digits == <<"0", "1", "2", "3", "4", "5", "6", "7", "8", "9">>

IsDigit(c) == \E i \in 1..10 : Digits[i] = c

DigitVal(c) == (CHOOSE i \in 1..10 : Digits[i] = c) - 1

DigitChar(n) == Digits[n + 1]

\* value of a string of decimal digits
RECURSIVE ParseDecimal(_)
ParseDecimal(s) ==
  IF Len(s) = 0 THEN 0
  ELSE 10 * ParseDecimal(SubSeq(s, 1, Len(s) - 1)) + DigitVal(s[Len(s)])

AllDigits(s) == Len(s) > 0 /\ \A i \in 1..Len(s) : IsDigit(s[i])

\* n rendered in exactly w decimal digits (format "%0wd")
RECURSIVE ZeroPad(_, _)
ZeroPad(n, w) ==
  IF w = 0 THEN <<>>
  ELSE Append(ZeroPad(n \div 10, w - 1), DigitChar(n % 10))

----------------------------------------------------------------------------
(* datetime.date *)

IsLeap(y) == (y % 4 = 0) /\ ((y % 100 # 0) \/ (y % 400 = 0))

DaysInMonth(y, m) ==
  IF m = 2 THEN (IF IsLeap(y) THEN 29 ELSE 28)
  ELSE IF m \in {4, 6, 9, 11} THEN 30 ELSE 31

MkDate(y, m, d) == [year |-> y, month |-> m, day |-> d]

\* date.fromisoformat accepts YYYY-MM-DD naming a day of the calendar
IsIsoFormat(s) ==
  /\ Len(s) = 10
  /\ s[5] = "-" /\ s[8] = "-"
  /\ \A i \in {1, 2, 3, 4, 6, 7, 9, 10} : IsDigit(s[i])
  /\ LET y == ParseDecimal(SubSeq(s, 1, 4))
         m == ParseDecimal(SubSeq(s, 6, 7))
         d == ParseDecimal(SubSeq(s, 9, 10))
     IN  y >= 1 /\ m \in 1..12 /\ d >= 1 /\ d <= DaysInMonth(y, m)

FromIsoFormat(s) ==
  MkDate(ParseDecimal(SubSeq(s, 1, 4)),
         ParseDecimal(SubSeq(s, 6, 7)),
         ParseDecimal(SubSeq(s, 9, 10)))

IsoFormat(d) ==
  ZeroPad(d.year, 4) \o <<"-">> \o ZeroPad(d.month, 2) \o <<"-">> \o ZeroPad(d.day, 2)

\* date.__lt__
DateLess(a, b) ==
  \/ a.year < b.year
  \/ a.year = b.year /\ a.month < b.month
  \/ a.year = b.year /\ a.month = b.month /\ a.day < b.day

DateLeq(a, b) == a = b \/ DateLess(a, b)

PrevDay(d) ==
  IF d.day > 1 THEN MkDate(d.year, d.month, d.day - 1)
  ELSE IF d.month > 1 THEN MkDate(d.year, d.month - 1, DaysInMonth(d.year, d.month - 1))
  ELSE MkDate(d.year - 1, 12, 31)

\* d - datetime.timedelta(days=n)
RECURSIVE MinusDays(_, _)
MinusDays(d, n) == IF n = 0 THEN d ELSE MinusDays(PrevDay(d), n - 1)

iDefaultWindowDays == 30


\* str(n) for n >= 0
RECURSIVE IntToStr(_)
IntToStr(n) ==
  IF n < 10 THEN <<DigitChar(n)>>
  ELSE Append(IntToStr(n \div 10), DigitChar(n % 10))

----------------------------------------------------------------------------
(* Command line *)

NotSupplied == [supplied |-> FALSE, text |-> <<>>]

Supplied(s) == [supplied |-> TRUE, text |-> s]

\* "x or default": None and the empty string are both falsy
OrDefault(arg, pszDefault) ==
  IF arg.supplied /\ Len(arg.text) > 0 THEN arg.text ELSE pszDefault

NoError == [kind |-> "none", at |-> "none"]

Error(kind, at) == [kind |-> kind, at |-> at]

\* the exception is swallowed and main goes on to write_tsv
PropagateSwallowed(kind) == "write"

\* main has no try/except: an exception ends the process
Propagate(kind) == "failed"

----------------------------------------------------------------------------
(* JSON values of the upstream API *)

\* a JSON number or a JSON string in the session field
IntValue(n) == [tag |-> "int", n |-> n, s |-> <<>>]

StrValue(s) == [tag |-> "str", n |-> 0, s |-> s]

NoValue == [tag |-> "none", n |-> 0, s |-> <<>>]

\* int(x) succeeds
IntConvertible(v) == v.tag = "int" \/ (v.tag = "str" /\ AllDigits(v.s))

\* int(x)
IntOf(v) == IF v.tag = "int" THEN v.n ELSE ParseDecimal(v.s)

\* one element of meetingRecord: a dict that may lack either key
Record(session, date) ==
  [hasSession |-> TRUE, session |-> session, hasDate |-> TRUE, date |-> date]

RecordNoDate(session) ==
  [hasSession |-> TRUE, session |-> session, hasDate |-> FALSE, date |-> <<>>]

RecordNoSession(date) ==
  [hasSession |-> FALSE, session |-> NoValue, hasDate |-> TRUE, date |-> date]

\* only the session key is looked for
HasSessionOnly(r) == r.hasSession

\* line 66: "session" in r and "date" in r
HasBothFields(r) == r.hasSession /\ r.hasDate

\* a record on which lines 66-71 raise nothing
WellFormed(r) ==
  /\ r.hasSession /\ r.hasDate
  /\ IntConvertible(r.session)
  /\ IsIsoFormat(r.date)

iMaximumRecords == 100

iFirstRecordPosition == 1

\* the offset advances by one record instead of one page
NextRecordPositionByOne(iPosition) == iPosition + 1

\* line 56
NextRecordPosition(iPosition) == iPosition + iMaximumRecords

\* only server errors count as failures
StatusOkBelow500(iStatus) == iStatus < 500

\* line 42
StatusOk(iStatus) == iStatus = 200

\* a short page ends the loop
PageIsShort(objListPageRecords) == Len(objListPageRecords) < iMaximumRecords

\* line 52: "not objListPageRecords"
PageIsEmpty(objListPageRecords) == Len(objListPageRecords) = 0

\* the page is put in front of the list
ExtendListInFront(objList, objListPageRecords) == objListPageRecords \o objList

\* line 55: list.extend
ExtendList(objList, objListPageRecords) == objList \o objListPageRecords

\* lines 33-40, the parameters that vary
RequestParams(pszStart, pszEnd, iPosition) ==
  [startDate |-> pszStart, endDate |-> pszEnd,
   maximumRecords |-> iMaximumRecords, recordPosition |-> iPosition]

TimeoutResponse == [kind |-> "timeout", status |-> 0, json |-> "none", page |-> <<>>]

HttpResponse(iStatus, json, page) ==
  [kind |-> "http", status |-> iStatus, json |-> json, page |-> page]

\* what lines 41-56 do with one response:
\* the exception raised ("none" if none), and whether the loop ends
FetchOutcome(resp) ==
  IF resp.kind = "timeout" THEN [raises |-> "Timeout", stop |-> TRUE]
  ELSE IF ~StatusOk(resp.status) THEN [raises |-> "RuntimeError", stop |-> TRUE]
  ELSE IF resp.json = "invalid" THEN [raises |-> "JSONDecodeError", stop |-> TRUE]
  ELSE IF resp.json = "noField" THEN [raises |-> "ValueError", stop |-> TRUE]
  ELSE IF resp.json = "notList" THEN [raises |-> "ValueError", stop |-> TRUE]
  ELSE IF PageIsEmpty(resp.page) THEN [raises |-> "none", stop |-> TRUE]
  ELSE [raises |-> "none", stop |-> FALSE]

----------------------------------------------------------------------------
(* aggregate_sessions *)

HasSession(objMap, iSession) == \E i \in 1..Len(objMap) : objMap[i].iSession = iSession

\* the start date is never lowered
LowerStartNever(objEntry, objMeetingDate) == objEntry

\* lines 79-80
LowerStart(objEntry, objMeetingDate) ==
  IF DateLess(objMeetingDate, objEntry.objStartDate)
  THEN [objEntry EXCEPT !.objStartDate = objMeetingDate]
  ELSE objEntry

\* the end date follows the last record seen
RaiseEndAlways(objEntry, objMeetingDate) ==
  [objEntry EXCEPT !.objEndDate = objMeetingDate]

\* lines 81-82
RaiseEnd(objEntry, objMeetingDate) ==
  IF DateLess(objEntry.objEndDate, objMeetingDate)
  THEN [objEntry EXCEPT !.objEndDate = objMeetingDate]
  ELSE objEntry

\* lines 73-82; a dict keeps its keys in insertion order
Upsert(objMap, iSession, objMeetingDate) ==
  IF ~HasSession(objMap, iSession)
  THEN Append(objMap, [iSession |-> iSession,
                       objStartDate |-> objMeetingDate,
                       objEndDate |-> objMeetingDate])
  ELSE [i \in 1..Len(objMap) |->
          IF objMap[i].iSession = iSession
          THEN RaiseEnd(LowerStart(objMap[i], objMeetingDate), objMeetingDate)
          ELSE objMap[i]]

\* what lines 66-71 raise on one record ("none" if nothing)
RecordRaises(r) ==
  IF ~HasBothFields(r) THEN "ValueError"
  ELSE IF ~r.hasSession \/ ~r.hasDate THEN "KeyError"
  ELSE IF ~IntConvertible(r.session) THEN "ValueError"
  ELSE IF ~IsIsoFormat(r.date) THEN "ValueError"
  ELSE "none"

\* lines 84-92
ToSessionList(objMap) ==
  [i \in 1..Len(objMap) |->
     [iSession |-> objMap[i].iSession,
      pszStartDate |-> IsoFormat(objMap[i].objStartDate),
      pszEndDate |-> IsoFormat(objMap[i].objEndDate)]]

\* place of x in a list already sorted descending: behind every element
\* whose key is not smaller, which keeps equal keys in their input order
RECURSIVE InsertDescending(_, _)
InsertDescending(objSorted, x) ==
  IF Len(objSorted) = 0 THEN <<x>>
  ELSE IF objSorted[1].iSession >= x.iSession
       THEN <<objSorted[1]>> \o InsertDescending(Tail(objSorted), x)
       ELSE <<x>> \o objSorted

\* the list is left in the order of the dict
SortedAsGiven(objList) == objList

\* line 94: sorted(..., key=iSession, reverse=True)
RECURSIVE SortedDescending(_)
SortedDescending(objList) ==
  IF Len(objList) = 0 THEN <<>>
  ELSE InsertDescending(SortedDescending(SubSeq(objList, 1, Len(objList) - 1)),
                        objList[Len(objList)])

\* the whole of aggregate_sessions on a list on which nothing raises
RECURSIVE BuildMap(_)
BuildMap(objList) ==
  IF Len(objList) = 0 THEN <<>>
  ELSE LET r == objList[Len(objList)]
       IN  Upsert(BuildMap(SubSeq(objList, 1, Len(objList) - 1)),
                  IntOf(r.session), FromIsoFormat(r.date))

AggregateSessions(objList) == SortedDescending(ToSessionList(BuildMap(objList)))

----------------------------------------------------------------------------
(* write_tsv *)

AbsentFile == [exists |-> FALSE, header |-> <<>>, rows |-> <<>>]

\* lines 102-110
TsvContent(objList) ==
  [exists |-> TRUE,
   header |-> <<"session", "start_date", "end_date">>,
   rows |-> [i \in 1..Len(objList) |->
               <<IntToStr(objList[i].iSession),
                 objList[i].pszStartDate,
                 objList[i].pszEndDate>>]]


----------------------------------------------------------------------------
(* Inputs *)

SeqsUpTo(S, n) == UNION {[1..k -> S] : k \in 0..n}

D0123 == <<"2", "0", "2", "3", "-", "0", "1", "-", "2", "3">>
D0621 == <<"2", "0", "2", "3", "-", "0", "6", "-", "2", "1">>
D1020 == <<"2", "0", "2", "3", "-", "1", "0", "-", "2", "0">>
\* not a day of the calendar
D0230 == <<"2", "0", "2", "3", "-", "0", "2", "-", "3", "0">>
\* not a month of the calendar
D1301 == <<"2", "0", "2", "3", "-", "1", "3", "-", "0", "1">>

ArgValues == {NotSupplied, Supplied(<<>>), Supplied(D0123), Supplied(D1301)}

Todays == {MkDate(2023, 11, 1), MkDate(2024, 1, 15)}

StaleFile ==
  [exists |-> TRUE,
   header |-> <<"session", "start_date", "end_date">>,
   rows |-> << <<IntToStr(209), D0123, D0123>> >>]

\* records the nondeterministic upstream puts in its pages
FetchRecords ==
  {Record(IntValue(210), D0123), Record(IntValue(211), D1020),
   RecordNoDate(IntValue(210)), RecordNoSession(D0621)}

\* records given to aggregate_sessions directly
AggRecords ==
  {Record(v, d) : v \in {IntValue(210), IntValue(211), StrValue(<<"2", "1", "0">>)},
                  d \in {D0123, D0621, D1020}}
  \cup {RecordNoDate(IntValue(211)), RecordNoSession(D0621),
        Record(IntValue(210), D0230)}

HttpStatuses == {200, 204, 404, 500}

\* every outcome of one requests.get, with pages of at most n records
Responses(n) ==
  {TimeoutResponse}
  \cup {HttpResponse(st, "noField", <<>>) : st \in HttpStatuses \ {200}}
  \cup {HttpResponse(200, js, <<>>) : js \in {"invalid", "noField", "notList"}}
  \cup {HttpResponse(200, "list", page) : page \in SeqsUpTo(FetchRecords, n)}

\* the i-th record (from 1) of the faithful server
ServerRecord(i) ==
  Record(IntValue(210 + (i % 2)), IF i % 3 = 0 THEN D0123 ELSE D1020)

\* the page a faithful server of iCount records returns at a 1-based position
FaithfulPage(iCount, iPosition) ==
  LET iLast == IF iPosition + iMaximumRecords - 1 < iCount
               THEN iPosition + iMaximumRecords - 1 ELSE iCount
  IN  IF iPosition > iCount THEN <<>>
      ELSE [i \in 1..(iLast - iPosition + 1) |-> ServerRecord(iPosition + i - 1)]

----------------------------------------------------------------------------
(* The process *)

NotReturned == [returned |-> FALSE, value |-> <<>>]

Returned(v) == [returned |-> TRUE, value |-> v]

Init ==
  /\ pc = "parse"
  /\ argv \in [start : ArgValues, end : ArgValues]
  /\ objToday \in Todays
  /\ pszStartDate = <<>>
  /\ pszEndDate = <<>>
  /\ iRecordPosition = iFirstRecordPosition
  /\ objListMeetingRecord = <<>>
  /\ requestLog = <<>>
  /\ responseLog = <<>>
  /\ objFetchResult = NotReturned
  /\ iIndex = 1
  /\ objSessionDateMap = <<>>
  /\ objListSession = NotReturned
  /\ objFile \in {AbsentFile, StaleFile}
  /\ objError = NoError
  /\ iServerCount = 0

\* lines 8-22 and 115-117
ParseArguments ==
  /\ pc = "parse"
  /\ LET objDefaultStartDate == MinusDays(objToday, iDefaultWindowDays)
         pszStart == OrDefault(argv.start, IsoFormat(objDefaultStartDate))
         pszEnd == OrDefault(argv.end, IsoFormat(objToday))
     IN  IF IsIsoFormat(pszStart) /\ IsIsoFormat(pszEnd)
         THEN /\ pszStartDate' = IsoFormat(FromIsoFormat(pszStart))
              /\ pszEndDate' = IsoFormat(FromIsoFormat(pszEnd))
              /\ pc' = "fetch"
              /\ UNCHANGED objError
         ELSE /\ objError' = Error("ValueError", "parse_arguments")
              /\ pc' = Propagate("ValueError")
              /\ UNCHANGED <<pszStartDate, pszEndDate>>
  /\ UNCHANGED <<argv, objToday, iRecordPosition, objListMeetingRecord,
                 requestLog, responseLog, objFetchResult, iIndex,
                 objSessionDateMap, objListSession, objFile, iServerCount>>

\* one iteration of the loop of lines 32-56 (and line 58 when it ends)
FetchStep(resp) ==
  /\ pc = "fetch"
  /\ requestLog' = Append(requestLog,
                          RequestParams(pszStartDate, pszEndDate, iRecordPosition))
  /\ responseLog' = Append(responseLog, resp)
  /\ LET out == FetchOutcome(resp)
     IN  IF out.raises # "none"
         THEN /\ objError' = Error(out.raises, "fetch_meeting_records")
              /\ pc' = Propagate(out.raises)
              /\ UNCHANGED <<iRecordPosition, objListMeetingRecord, objFetchResult>>
         ELSE IF out.stop
         THEN /\ objFetchResult' = Returned(objListMeetingRecord)
              /\ pc' = "aggregate"
              /\ UNCHANGED <<iRecordPosition, objListMeetingRecord, objError>>
         ELSE /\ objListMeetingRecord' = ExtendList(objListMeetingRecord, resp.page)
              /\ iRecordPosition' = NextRecordPosition(iRecordPosition)
              /\ UNCHANGED <<pc, objFetchResult, objError>>
  /\ UNCHANGED <<argv, objToday, pszStartDate, pszEndDate, iIndex,
                 objSessionDateMap, objListSession, objFile, iServerCount>>

\* the upstream answers anything
FetchPage ==
  \E resp \in Responses(MaxFetched - Len(objListMeetingRecord)) : FetchStep(resp)

\* one iteration of the loop of lines 65-82
AggregateRecord ==
  /\ pc = "aggregate"
  /\ iIndex <= Len(objFetchResult.value)
  /\ LET r == objFetchResult.value[iIndex]
         raises == RecordRaises(r)
     IN  IF raises # "none"
         THEN /\ objError' = Error(raises, "aggregate_sessions")
              /\ pc' = Propagate(raises)
              /\ UNCHANGED <<iIndex, objSessionDateMap>>
         ELSE /\ objSessionDateMap' =
                   Upsert(objSessionDateMap, IntOf(r.session), FromIsoFormat(r.date))
              /\ iIndex' = iIndex + 1
              /\ UNCHANGED <<pc, objError>>
  /\ UNCHANGED <<argv, objToday, pszStartDate, pszEndDate, iRecordPosition,
                 objListMeetingRecord, requestLog, responseLog, objFetchResult,
                 objListSession, objFile, iServerCount>>

\* lines 84-95
ReturnSessions ==
  /\ pc = "aggregate"
  /\ iIndex > Len(objFetchResult.value)
  /\ objListSession' = Returned(SortedDescending(ToSessionList(objSessionDateMap)))
  /\ pc' = "write"
  /\ UNCHANGED <<argv, objToday, pszStartDate, pszEndDate, iRecordPosition,
                 objListMeetingRecord, requestLog, responseLog, objFetchResult,
                 iIndex, objSessionDateMap, objFile, objError, iServerCount>>

\* lines 99-110; open() may fail
WriteTsv ==
  /\ pc = "write"
  /\ \E bOpened \in BOOLEAN :
       IF bOpened
       THEN /\ objFile' = TsvContent(objListSession.value)
            /\ pc' = "done"
            /\ UNCHANGED objError
       ELSE /\ objError' = Error("OSError", "write_tsv")
            /\ pc' = Propagate("OSError")
            /\ UNCHANGED objFile
  /\ UNCHANGED <<argv, objToday, pszStartDate, pszEndDate, iRecordPosition,
                 objListMeetingRecord, requestLog, responseLog, objFetchResult,
                 iIndex, objSessionDateMap, objListSession, iServerCount>>

Next == ParseArguments \/ FetchPage \/ AggregateRecord \/ ReturnSessions \/ WriteTsv

Spec == Init /\ [][Next]_vars

----------------------------------------------------------------------------
(* aggregate_sessions and write_tsv on every record list *)

InitAgg ==
  /\ pc = "aggregate"
  /\ argv = [start |-> NotSupplied, end |-> NotSupplied]
  /\ objToday = MkDate(2023, 11, 1)
  /\ pszStartDate = <<>>
  /\ pszEndDate = <<>>
  /\ iRecordPosition = iFirstRecordPosition
  /\ objListMeetingRecord = <<>>
  /\ requestLog = <<>>
  /\ responseLog = <<>>
  /\ objFetchResult \in {Returned(l) : l \in SeqsUpTo(AggRecords, MaxRecords)}
  /\ iIndex = 1
  /\ objSessionDateMap = <<>>
  /\ objListSession = NotReturned
  /\ objFile = AbsentFile
  /\ objError = NoError
  /\ iServerCount = 0

NextAgg == AggregateRecord \/ ReturnSessions \/ WriteTsv

SpecAgg == InitAgg /\ [][NextAgg]_vars

----------------------------------------------------------------------------
(* fetch_meeting_records against a server that serves its records faithfully *)

InitFaithful ==
  /\ pc = "fetch"
  /\ argv = [start |-> Supplied(D0123), end |-> Supplied(D1020)]
  /\ objToday = MkDate(2023, 11, 1)
  /\ pszStartDate = D0123
  /\ pszEndDate = D1020
  /\ iRecordPosition = iFirstRecordPosition
  /\ objListMeetingRecord = <<>>
  /\ requestLog = <<>>
  /\ responseLog = <<>>
  /\ objFetchResult = NotReturned
  /\ iIndex = 1
  /\ objSessionDateMap = <<>>
  /\ objListSession = NotReturned
  /\ objFile = AbsentFile
  /\ objError = NoError
  /\ iServerCount \in 0..MaxServerCount

FetchFaithfulPage ==
  FetchStep(HttpResponse(200, "list", FaithfulPage(iServerCount, iRecordPosition)))

NextFaithful == FetchFaithfulPage

\* the loop blocks on one round trip after another: a pending request is made
SpecFaithful == InitFaithful /\ [][NextFaithful]_vars /\ WF_vars(FetchFaithfulPage)


----------------------------------------------------------------------------
(* Properties *)

IsOkPage(resp) == resp.kind = "http" /\ resp.status = 200 /\ resp.json = "list"

IsEmptyPage(resp) == IsOkPage(resp) /\ Len(resp.page) = 0

IsNonEmptyPage(resp) == IsOkPage(resp) /\ Len(resp.page) > 0

\* the pages of the first n responses, one after another
RECURSIVE ConcatPages(_, _)
ConcatPages(log, n) ==
  IF n = 0 THEN <<>> ELSE ConcatPages(log, n - 1) \o log[n].page

\* C1 as stated: requests are issued one at a time, the k-th request (from
\* k = 0) carries record offset 100*k, and none follows an empty page.
C1_OffsetsFromZero ==
  /\ Len(requestLog) = Len(responseLog)
  /\ \A k \in 1..Len(requestLog) :
       /\ requestLog[k].recordPosition = 100 * (k - 1)
       /\ k > 1 => IsNonEmptyPage(responseLog[k - 1])

\* C1 as amended: requests are issued one at a time, the k-th request (from
\* k = 0) carries recordPosition 100*k + 1 (1, 101, 201, ...), strictly
\* increasing, and each request but the first follows a non-empty page.
C1_OffsetsFromOne ==
  /\ Len(requestLog) = Len(responseLog)
  /\ \A k \in 1..Len(requestLog) :
       /\ requestLog[k].recordPosition = 100 * (k - 1) + 1
       /\ requestLog[k].maximumRecords = 100
       /\ k > 1 => /\ requestLog[k].recordPosition > requestLog[k - 1].recordPosition
                   /\ IsNonEmptyPage(responseLog[k - 1])

C1_Witness ==
  /\ Len(requestLog) >= 3
  /\ IsEmptyPage(responseLog[Len(responseLog)])
  /\ objFetchResult.returned

\* C2: when every response so far is a well-formed status-200 page, the fetch
\* is still running if no page was empty, and otherwise it has returned the
\* concatenation in request order of the pages before the first empty one,
\* that empty page being the answer to the last request ever issued.
C2_ConcatenationUntilEmpty ==
  (\A k \in 1..Len(responseLog) : IsOkPage(responseLog[k])) =>
    IF \E k \in 1..Len(responseLog) : IsEmptyPage(responseLog[k])
    THEN LET iFirstEmpty == CHOOSE k \in 1..Len(responseLog) :
                              /\ IsEmptyPage(responseLog[k])
                              /\ \A j \in 1..(k - 1) : ~IsEmptyPage(responseLog[j])
         IN  /\ Len(requestLog) = iFirstEmpty
             /\ Len(responseLog) = iFirstEmpty
             /\ objFetchResult = Returned(ConcatPages(responseLog, iFirstEmpty - 1))
             /\ objError.at # "fetch_meeting_records"
    ELSE /\ Len(responseLog) > 0 => pc = "fetch"
         /\ ~objFetchResult.returned
         /\ objListMeetingRecord = ConcatPages(responseLog, Len(responseLog))

C2_Witness ==
  /\ objFetchResult.returned
  /\ Len(responseLog) = 3
  /\ responseLog[1].page # responseLog[2].page
  /\ Len(objFetchResult.value) = Len(responseLog[1].page) + Len(responseLog[2].page)

\* the records of a list with a given session number
DatesOf(objList, iSession) ==
  {FromIsoFormat(objList[i].date) :
     i \in {j \in 1..Len(objList) : IntOf(objList[j].session) = iSession}}

SessionsOf(objList) == {IntOf(objList[i].session) : i \in 1..Len(objList)}

IsMinimum(d, S) == d \in S /\ \A e \in S : DateLeq(d, e)

IsMaximum(d, S) == d \in S /\ \A e \in S : DateLeq(e, d)

\* C3: after any prefix of the records the session map has one entry per
\* distinct session number of the prefix, holding the minimum and the maximum
\* date of the prefix's records of that session; the returned list has each
\* session number of the input once, with the same bounds in ISO form.
C3_RangePerSession ==
  LET objPrefix == SubSeq(objFetchResult.value, 1, iIndex - 1)
  IN  /\ {objSessionDateMap[i].iSession : i \in 1..Len(objSessionDateMap)}
           = SessionsOf(objPrefix)
      /\ Len(objSessionDateMap) = Cardinality(SessionsOf(objPrefix))
      /\ \A i \in 1..Len(objSessionDateMap) :
           LET e == objSessionDateMap[i]
           IN  /\ IsMinimum(e.objStartDate, DatesOf(objPrefix, e.iSession))
               /\ IsMaximum(e.objEndDate, DatesOf(objPrefix, e.iSession))
               /\ DateLeq(e.objStartDate, e.objEndDate)
      /\ objListSession.returned =>
           LET objAll == objFetchResult.value
               objOut == objListSession.value
           IN  /\ Len(objOut) = Cardinality(SessionsOf(objAll))
               /\ {objOut[i].iSession : i \in 1..Len(objOut)} = SessionsOf(objAll)
               /\ \A i \in 1..Len(objOut) :
                    /\ IsIsoFormat(objOut[i].pszStartDate)
                    /\ IsIsoFormat(objOut[i].pszEndDate)
                    /\ IsMinimum(FromIsoFormat(objOut[i].pszStartDate),
                                 DatesOf(objAll, objOut[i].iSession))
                    /\ IsMaximum(FromIsoFormat(objOut[i].pszEndDate),
                                 DatesOf(objAll, objOut[i].iSession))

\* the scenario of the specification, with its two dates of session 210 in
\* either order of arrival
C3_Witness ==
  /\ objFetchResult.value \in
       {<<Record(IntValue(210), D0123), Record(IntValue(210), D0621),
          Record(IntValue(211), D1020)>>,
        <<Record(IntValue(210), D0621), Record(IntValue(210), D0123),
          Record(IntValue(211), D1020)>>}
  /\ objListSession =
       Returned(<<[iSession |-> 211, pszStartDate |-> D1020, pszEndDate |-> D1020],
                  [iSession |-> 210, pszStartDate |-> D0123, pszEndDate |-> D0621]>>)

\* C4: the list returned by aggregate_sessions, and the data rows of the
\* file written from it, are strictly descending by session number.
C4_StrictlyDescending ==
  /\ objListSession.returned =>
       \A i \in 1..(Len(objListSession.value) - 1) :
         objListSession.value[i].iSession > objListSession.value[i + 1].iSession
  /\ pc = "done" =>
       /\ Len(objFile.rows) = Len(objListSession.value)
       /\ \A i \in 1..Len(objFile.rows) :
            /\ AllDigits(objFile.rows[i][1])
            /\ ParseDecimal(objFile.rows[i][1]) = objListSession.value[i].iSession
       /\ \A i \in 1..(Len(objFile.rows) - 1) :
            ParseDecimal(objFile.rows[i][1]) > ParseDecimal(objFile.rows[i + 1][1])

\* session 210 arrives before session 211 and both rows are in the file
C4_Witness ==
  /\ pc = "done"
  /\ Len(objFile.rows) = 2
  /\ Len(objFetchResult.value) >= 2
  /\ IntOf(objFetchResult.value[1].session) = 210
  /\ IntOf(objFetchResult.value[2].session) = 211

Permuted(objList, f) == [i \in 1..Len(objList) |-> objList[f[i]]]

\* C5: when aggregate_sessions returns, it returns for every permutation of
\* its input the same list: same sessions, same dates, same order.
C5_OrderIndependent ==
  objListSession.returned =>
    \A f \in Permutations(1..Len(objFetchResult.value)) :
      AggregateSessions(Permuted(objFetchResult.value, f)) = objListSession.value

\* two sessions, the later date of session 210 arriving first
C5_Witness ==
  /\ objListSession.returned
  /\ Len(objFetchResult.value) = 3
  /\ Len(objListSession.value) = 2
  /\ objFetchResult.value[1] = Record(IntValue(210), D0621)
  /\ objFetchResult.value[2] = Record(IntValue(211), D1020)
  /\ objFetchResult.value[3] = Record(IntValue(210), D0123)

IsNon2xx(resp) == resp.kind = "http" /\ ~(resp.status \in 200..299)

\* C6: a response with a non-2xx status, at any position, is the answer to
\* the last request ever issued; the process has failed in the fetch with the
\* transport error, and nothing was returned, aggregated or written from the
\* pages received before.
C6_TransportFailureIsFatal ==
  \A k \in 1..Len(responseLog) :
    IsNon2xx(responseLog[k]) =>
      /\ k = Len(responseLog)
      /\ Len(requestLog) = k
      /\ pc = "failed"
      /\ objError = Error("RuntimeError", "fetch_meeting_records")
      /\ ~objFetchResult.returned
      /\ ~objListSession.returned
      /\ objSessionDateMap = <<>>

\* a 404 or 500 after records were accumulated
C6_Witness ==
  /\ Len(responseLog) >= 2
  /\ IsNon2xx(responseLog[Len(responseLog)])
  /\ Len(objListMeetingRecord) > 0
  /\ pc = "failed"

IsShapeDefect(resp) ==
  resp.kind = "http" /\ resp.status = 200 /\ resp.json \in {"noField", "notList"}

TransportErrors == {"RuntimeError", "Timeout"}

\* C7: a status-200 response without meetingRecord, or with one that is not a
\* list, is the answer to the last request and fails the fetch with an error
\* that is not the transport error; and a returned list holding a record
\* without session or date is never aggregated past that record and never
\* yields a result, the process failing there with that same kind of error.
C7_ShapeDefectIsFatal ==
  /\ \A k \in 1..Len(responseLog) :
       IsShapeDefect(responseLog[k]) =>
         /\ k = Len(responseLog)
         /\ Len(requestLog) = k
         /\ pc = "failed"
         /\ objError = Error("ValueError", "fetch_meeting_records")
         /\ ~(objError.kind \in TransportErrors)
         /\ ~objFetchResult.returned
  /\ \A j \in 1..Len(objFetchResult.value) :
       ~(objFetchResult.value[j].hasSession /\ objFetchResult.value[j].hasDate) =>
         /\ iIndex <= j
         /\ ~objListSession.returned
         /\ Len(objSessionDateMap) <= j - 1
         /\ pc \in {"aggregate", "failed"}
         /\ pc = "failed" =>
              /\ objError = Error("ValueError", "aggregate_sessions")
              /\ ~(objError.kind \in TransportErrors)

\* a record without date behind a complete one has stopped the aggregation
C7_Witness ==
  /\ pc = "failed"
  /\ objError.at = "aggregate_sessions"
  /\ iIndex = 2
  /\ ~objFetchResult.value[2].hasDate
  /\ Len(objSessionDateMap) = 1

\* C8: the file changes only in the step of write_tsv, taken after the fetch
\* returned on its empty page and aggregate_sessions returned having passed
\* every record; once the process has failed the file never changes.
C8_WriteOnlyAfterAll ==
  [][/\ objFile' # objFile =>
          /\ pc = "write"
          /\ objError = NoError
          /\ objFetchResult.returned
          /\ Len(responseLog) > 0
          /\ IsEmptyPage(responseLog[Len(responseLog)])
          /\ iIndex = Len(objFetchResult.value) + 1
          /\ objListSession.returned
          /\ objFile' = TsvContent(objListSession.value)
     /\ objError # NoError => objFile' = objFile
    ]_vars

C8_Witness ==
  /\ pc = "done"
  /\ objFile = TsvContent(objListSession.value)
  /\ Len(objFile.rows) = 2
  /\ Len(responseLog) = 3

IsInvalidArg(arg) == arg.supplied /\ ~IsIsoFormat(arg.text)

\* C9 as stated: a supplied flag value that is not an ISO-8601 date, the
\* empty string included, fails the process with the parse error before any
\* request is issued.
C9_InvalidArgumentRejected ==
  (IsInvalidArg(argv.start) \/ IsInvalidArg(argv.end)) =>
    /\ requestLog = <<>>
    /\ pc \in {"parse", "failed"}
    /\ pc = "failed" => objError = Error("ValueError", "parse_arguments")

CeilDiv(n, d) == (n + d - 1) \div d

FetchReturned == objFetchResult.returned

\* C10: against the faithful server the fetch eventually returns, and when it
\* has returned it has issued exactly ceil(N/100) + 1 requests, the last one
\* answered by the empty page and every earlier one by a non-empty page.
C10_TerminatesAfterEmptyPage ==
  /\ <>FetchReturned
  /\ [](FetchReturned =>
          /\ Len(requestLog) = CeilDiv(iServerCount, 100) + 1
          /\ IsEmptyPage(responseLog[Len(responseLog)])
          /\ \A k \in 1..(Len(responseLog) - 1) : IsNonEmptyPage(responseLog[k])
          /\ Len(objFetchResult.value) = iServerCount
          /\ objError = NoError)

\* 150 records: a full page, a page of 50, the empty page
C10_Witness ==
  /\ FetchReturned
  /\ iServerCount = 150
  /\ Len(requestLog) = 3
  /\ Len(responseLog[2].page) = 50

====
